---------------------------- MODULE Spec2Model ----------------------------
(***************************************************************************)
(* Recipient side of the ECIES-HKDF key-encapsulation mechanism            *)
(* (cc/subtle/ecies_hkdf_recipient_kem_boringssl.cc).                      *)
(*                                                                         *)
(* The dispatcher, the two strategies (NIST P-curves and X25519), their    *)
(* constructors and their GenerateKey methods are translated statement by  *)
(* statement.  The collaborators the file calls but does not define        *)
(* (GetEcGroup, EcPointDecode, ComputeEcdhSharedSecret, X25519 and         *)
(* Hkdf::ComputeEciesHkdfSymmetricKey) are modelled from their contract:   *)
(* the prime curves are small prime-order Weierstrass curves with genuine  *)
(* group arithmetic and one-byte field elements, X25519 is a byte-wise     *)
(* product and the HKDF output is the symbolic tuple of its inputs.        *)
(***************************************************************************)
EXTENDS Integers, Sequences, FiniteSets, TLC

(***************************************************************************)
(* Byte strings                                                            *)
(***************************************************************************)

\* n copies of byte b
Fill(n, b) == [i \in 1..n |-> b]

AllZero(s) == \A i \in 1..Len(s) : s[i] = 0

RECURSIVE StripLeadingZeros(_)
StripLeadingZeros(s) ==
  IF s = <<>> THEN <<>>
  ELSE IF s[1] = 0 THEN StripLeadingZeros(Tail(s)) ELSE s

(***************************************************************************)
(* Program constants                                                       *)
(***************************************************************************)

X25519_PRIVATE_KEY_LEN == 32
X25519_PUBLIC_VALUE_LEN == 32
X25519_SHARED_KEY_LEN == 32

\* EllipticCurveType
NistCurves == {"NIST_P256", "NIST_P384", "NIST_P521"}
EllipticCurveType == NistCurves \cup {"CURVE25519", "UNKNOWN_CURVE"}

\* EcPointFormat
EcPointFormat == {"COMPRESSED", "UNCOMPRESSED"}

\* HashType
HashType == {"SHA256", "UNKNOWN_HASH"}

\* util::Status / util::StatusOr<T>: an error code and, when OK, a value
Ok(v) == [code |-> "OK", value |-> v]
Error(c) == [code |-> c, value |-> <<>>]

(***************************************************************************)
(* Input sets                                                              *)
(***************************************************************************)

\* the longest run of calls begun on one instance
MaxCalls == 3

\* the callers sharing the instance
Callers == {1, 2}

PrivKeyInputs ==
  { <<>>, <<0>>, <<5>>, <<0, 13>>, Fill(31, 2), Fill(32, 2), Fill(33, 2) }

KemInputs ==
  { <<2, 2>>, <<4, 2, 6>>, <<2, 0>>, <<0, 0>>,
    Fill(32, 0), Fill(32, 3), Fill(31, 3) }

SaltInputs == { <<7>> }
InfoInputs == { <<9>> }
KeySizeInputs == { 16, 8161 }

(***************************************************************************)
(* Prime-curve arithmetic (collaborator SubtleUtilBoringSSL)               *)
(***************************************************************************)

\* domain parameters: y^2 = x^3 + a x + b over F_p, group of prime order n
CurveParams(curve) ==
  CASE curve = "NIST_P256" -> [p |-> 11, a |-> 1, b |-> 6, n |-> 13]
    [] curve = "NIST_P384" -> [p |-> 13, a |-> 0, b |-> 2, n |-> 19]
    [] curve = "NIST_P521" -> [p |-> 17, a |-> 3, b |-> 5, n |-> 23]

\* GetEcGroup: the group handle of a NIST curve, UNIMPLEMENTED otherwise
GetEcGroup(curve) ==
  IF curve \in NistCurves THEN Ok(<<curve>>) ELSE Error("UNIMPLEMENTED")

Infinity == <<>>

IsOnCurve(g, P) ==
  /\ P # Infinity
  /\ P[1] \in 0..(g.p - 1) /\ P[2] \in 0..(g.p - 1)
  /\ (P[2] * P[2]) % g.p = (P[1] * P[1] * P[1] + g.a * P[1] + g.b) % g.p

ModInv(x, p) == CHOOSE i \in 1..(p - 1) : (i * x) % p = 1

EcAdd(g, P, Q) ==
  IF P = Infinity THEN Q
  ELSE IF Q = Infinity THEN P
  ELSE IF P[1] = Q[1] /\ (P[2] + Q[2]) % g.p = 0 THEN Infinity
  ELSE LET lam == IF P = Q
                  THEN ((3 * P[1] * P[1] + g.a) * ModInv((2 * P[2]) % g.p, g.p)) % g.p
                  ELSE (((Q[2] - P[2]) % g.p) * ModInv((Q[1] - P[1]) % g.p, g.p)) % g.p
           x3 == (lam * lam - P[1] - Q[1]) % g.p
       IN  <<x3, (lam * (P[1] - x3) - P[2]) % g.p>>

RECURSIVE EcMul(_, _, _)
EcMul(g, k, P) == IF k = 0 THEN Infinity ELSE EcAdd(g, EcMul(g, k - 1, P), P)

\* EcPointDecode(curve, format, encoded): one-byte field elements, so a
\* compressed point is <<2|3, x>> and an uncompressed one <<4, x, y>>
EcPointDecode(curve, format, encoded) ==
  LET g == CurveParams(curve) IN
  CASE format = "UNCOMPRESSED" ->
         IF Len(encoded) # 3 THEN Error("INVALID_ARGUMENT")
         ELSE IF encoded[1] # 4 THEN Error("INTERNAL")
         ELSE IF ~IsOnCurve(g, <<encoded[2], encoded[3]>>) THEN Error("INTERNAL")
         ELSE Ok(<<encoded[2], encoded[3]>>)
    [] format = "COMPRESSED" ->
         IF Len(encoded) # 2 THEN Error("INVALID_ARGUMENT")
         ELSE IF encoded[1] \notin {2, 3} THEN Error("INTERNAL")
         ELSE LET ys == { y \in 0..(g.p - 1) :
                            /\ IsOnCurve(g, <<encoded[2], y>>)
                            /\ y % 2 = encoded[1] - 2 }
              IN  IF ys = {} THEN Error("INTERNAL")
                  ELSE Ok(<<encoded[2], CHOOSE y \in ys : TRUE>>)
    [] OTHER -> Error("INTERNAL")

\* BN_bin2bn: a big-endian unsigned integer, kept as its minimal byte string
BN_bin2bn(bytes) == StripLeadingZeros(bytes)

\* the scalar as a number, when it fits one byte
BnWord(bn) == IF bn = <<>> THEN 0 ELSE bn[1]

\* ComputeEcdhSharedSecret(curve, priv_key, pub_key): x-coordinate of
\* priv_key * pub_key; INTERNAL if the scalar is not below the group order
\* or the product is the point at infinity
ComputeEcdhSharedSecret(curve, priv_key, pub_key) ==
  LET g == CurveParams(curve) IN
  IF ~IsOnCurve(g, pub_key) THEN Error("INTERNAL")
  ELSE IF Len(priv_key) > 1 \/ BnWord(priv_key) >= g.n THEN Error("INTERNAL")
  ELSE LET S == EcMul(g, BnWord(priv_key), pub_key)
       IN  IF S = Infinity THEN Error("INTERNAL") ELSE Ok(<<S[1]>>)

(***************************************************************************)
(* X25519 and HKDF (collaborators)                                         *)
(***************************************************************************)

\* X25519(out, private_key, peer_public_value): the 32 bytes written to out
X25519(private_key, peer_public_value) ==
  [i \in 1..X25519_SHARED_KEY_LEN |-> (private_key[i] * peer_public_value[i]) % 256]

\* the most bytes HKDF with SHA-256 can expand to: 255 blocks of 32
HkdfMaxOutput == 255 * 32

\* Hkdf::ComputeEciesHkdfSymmetricKey: HKDF over ikm = kem_bytes || shared_secret;
\* the output is the symbolic binding of everything it depends on
ComputeEciesHkdfSymmetricKey(hash, kem_bytes, shared_secret, salt, info, out_len) ==
  IF hash # "SHA256" THEN Error("UNIMPLEMENTED")
  ELSE IF out_len > HkdfMaxOutput THEN Error("INTERNAL")
  ELSE Ok(<<hash, kem_bytes \o shared_secret, salt, info, out_len>>)


(***************************************************************************)
(* State                                                                   *)
(***************************************************************************)

VARIABLES
  kem,        \* the constructed RecipientKem, or NoKem
  newArgs,    \* entry point and arguments of the last factory call
  newStatus,  \* status returned by the last factory call
  newLog,     \* the functions the last factory call went through
  calls,      \* GenerateKey calls begun on the instance
  pc,         \* per caller: position inside GenerateKey
  args,       \* per caller: arguments of its call
  frame,      \* per stack frame: the locals of GenerateKey, as left in memory
  result,     \* per caller: the StatusOr<string> returned
  log         \* per caller: collaborator calls and checks made, in order

vars == <<kem, newArgs, newStatus, newLog, calls, pc, args, frame, result, log>>

NoKem == [variant |-> "none", curve_ |-> "none", priv_key_value_ |-> <<>>,
          ec_group_ |-> <<>>, private_key_ |-> <<>>]

NoArgs == [kem_bytes |-> <<>>, hash |-> "none", hkdf_salt |-> <<>>,
           hkdf_info |-> <<>>, key_size_in_bytes |-> 0, point_format |-> "none"]

GenerateKeyArgs ==
  [kem_bytes : KemInputs, hash : HashType, hkdf_salt : SaltInputs,
   hkdf_info : InfoInputs, key_size_in_bytes : KeySizeInputs,
   point_format : EcPointFormat]

\* the locals of GenerateKey that hold key material
NoFrame == [pub_key |-> <<>>, priv_key |-> <<>>, status_or_string |-> <<>>,
            shared_key |-> <<>>, shared_secret |-> <<>>]

NoResult == [code |-> "none", value |-> <<>>]

Event(op, in) == [op |-> op, in |-> in]

(***************************************************************************)
(* Construction                                                            *)
(***************************************************************************)

Built(status, k, trace) == [status |-> status, kem |-> k, log |-> trace]

\* EciesHkdfNistPCurveRecipientKemBoringSsl constructor
NistPCurveCtor(curve, priv_key_value, ec_group) ==
  [variant |-> "NistPCurve", curve_ |-> curve, priv_key_value_ |-> priv_key_value,
   ec_group_ |-> ec_group, private_key_ |-> <<>>]

\* NistPCurve::New looking the group up before it looks at the key
NistPCurveNew_LookupFirst(curve, priv_key) ==
  LET status_or_ec_group == GetEcGroup(curve) IN
  IF status_or_ec_group.code # "OK"
  THEN Built(status_or_ec_group.code, NoKem, <<"NistPCurve::New", "GetEcGroup">>)
  ELSE IF priv_key = <<>>
  THEN Built("INVALID_ARGUMENT", NoKem, <<"NistPCurve::New", "GetEcGroup">>)
  ELSE Built("OK", NistPCurveCtor(curve, priv_key, status_or_ec_group.value),
             <<"NistPCurve::New", "GetEcGroup", "NistPCurve::ctor">>)

\* EciesHkdfNistPCurveRecipientKemBoringSsl::New
NistPCurveNew(curve, priv_key) ==
  IF priv_key = <<>>
  THEN Built("INVALID_ARGUMENT", NoKem, <<"NistPCurve::New">>)
  ELSE LET status_or_ec_group == GetEcGroup(curve) IN
       IF status_or_ec_group.code # "OK"
       THEN Built(status_or_ec_group.code, NoKem,
                  <<"NistPCurve::New", "GetEcGroup">>)
       ELSE Built("OK",
                  NistPCurveCtor(curve, priv_key, status_or_ec_group.value),
                  <<"NistPCurve::New", "GetEcGroup", "NistPCurve::ctor">>)

\* EciesHkdfX25519RecipientKemBoringSsl constructor: private_key.copy(private_key_, 32)
\* copies at most 32 bytes and at most the whole string
X25519Ctor(private_key) ==
  [variant |-> "X25519", curve_ |-> "none", priv_key_value_ |-> <<>>,
   ec_group_ |-> <<>>,
   private_key_ |->
     SubSeq(private_key, 1,
            IF Len(private_key) < X25519_PRIVATE_KEY_LEN
            THEN Len(private_key) ELSE X25519_PRIVATE_KEY_LEN)]

\* X25519::New rejecting only keys that are too long
X25519New_OnlyTooLong(curve, priv_key) ==
  IF curve # "CURVE25519"
  THEN Built("INVALID_ARGUMENT", NoKem, <<"X25519::New">>)
  ELSE IF Len(priv_key) > X25519_PUBLIC_VALUE_LEN
  THEN Built("INVALID_ARGUMENT", NoKem, <<"X25519::New">>)
  ELSE Built("OK", X25519Ctor(priv_key), <<"X25519::New", "X25519::ctor">>)

\* EciesHkdfX25519RecipientKemBoringSsl::New
X25519New(curve, priv_key) ==
  IF curve # "CURVE25519"
  THEN Built("INVALID_ARGUMENT", NoKem, <<"X25519::New">>)
  ELSE IF Len(priv_key) # X25519_PUBLIC_VALUE_LEN
  THEN Built("INVALID_ARGUMENT", NoKem, <<"X25519::New">>)
  ELSE Built("OK", X25519Ctor(priv_key), <<"X25519::New", "X25519::ctor">>)

\* the dispatcher with the NIST_P521 case label missing
RecipientKemNew_NoP521(curve, priv_key) ==
  CASE curve \in {"NIST_P256", "NIST_P384"} -> NistPCurveNew(curve, priv_key)
    [] curve = "CURVE25519" -> X25519New(curve, priv_key)
    [] OTHER -> Built("UNIMPLEMENTED", NoKem, <<>>)

\* EciesHkdfRecipientKemBoringSsl::New, the dispatcher
RecipientKemNew(curve, priv_key) ==
  CASE curve \in {"NIST_P256", "NIST_P384", "NIST_P521"} ->
         NistPCurveNew(curve, priv_key)
    [] curve = "CURVE25519" -> X25519New(curve, priv_key)
    [] OTHER -> Built("UNIMPLEMENTED", NoKem, <<>>)

Construct(entry, curve, priv_key, built) ==
  /\ kem = NoKem
  /\ kem' = built.kem
  /\ newArgs' = [entry |-> entry, curve |-> curve, priv_key |-> priv_key]
  /\ newStatus' = built.status
  /\ newLog' = built.log
  /\ UNCHANGED <<calls, pc, args, frame, result, log>>

New ==
  \E curve \in EllipticCurveType, priv_key \in PrivKeyInputs :
    Construct("RecipientKem::New", curve, priv_key, RecipientKemNew(curve, priv_key))

NistPCurve_New ==
  \E curve \in EllipticCurveType, priv_key \in PrivKeyInputs :
    Construct("NistPCurve::New", curve, priv_key, NistPCurveNew(curve, priv_key))

X25519_New ==
  \E curve \in EllipticCurveType, priv_key \in PrivKeyInputs :
    Construct("X25519::New", curve, priv_key, X25519New(curve, priv_key))

(***************************************************************************)
(* GenerateKey                                                             *)
(***************************************************************************)

\* what one step of GenerateKey leaves behind: the next position, the locals,
\* the value returned (when it returns), the log and the object itself
Stepped(next, fr, res, trace, self) ==
  [pc |-> next, frame |-> fr, result |-> res, log |-> trace, self |-> self]

\* the decode step handing the decoder's own status back
NistPCurveDecode_OwnStatus(self, a, fr, trace) ==
  LET status_or_ec_point ==
        EcPointDecode(self.curve_, a.point_format, a.kem_bytes)
      seen == Append(trace, Event("EcPointDecode", <<>>))
  IN  IF status_or_ec_point.code # "OK"
      THEN Stepped("done", fr, Error(status_or_ec_point.code), seen, self)
      ELSE Stepped("bn", [fr EXCEPT !.pub_key = status_or_ec_point.value],
                   NoResult, seen, self)

\* NistPCurve GenerateKey, lines 77-85: decode the point
NistPCurveDecode(self, a, fr, trace) ==
  LET status_or_ec_point ==
        EcPointDecode(self.curve_, a.point_format, a.kem_bytes)
      seen == Append(trace, Event("EcPointDecode", <<>>))
  IN  IF status_or_ec_point.code # "OK"
      THEN Stepped("done", fr, Error("INVALID_ARGUMENT"), seen, self)
      ELSE Stepped("bn", [fr EXCEPT !.pub_key = status_or_ec_point.value],
                   NoResult, seen, self)

\* lines 86-88: the private key as a BIGNUM
NistPCurveBignum(self, a, fr, trace) ==
  Stepped("ecdh", [fr EXCEPT !.priv_key = BN_bin2bn(self.priv_key_value_)],
          NoResult, Append(trace, Event("BN_bin2bn", <<>>)), self)

\* lines 89-93: the shared secret
NistPCurveEcdh(self, a, fr, trace) ==
  LET status_or_string ==
        ComputeEcdhSharedSecret(self.curve_, fr.priv_key, fr.pub_key)
      seen == Append(trace, Event("ComputeEcdhSharedSecret", <<>>))
  IN  IF status_or_string.code # "OK"
      THEN Stepped("done", fr, Error(status_or_string.code), seen, self)
      ELSE Stepped("hkdf", [fr EXCEPT !.status_or_string = status_or_string.value],
                   NoResult, seen, self)

\* the derivation called with kem_bytes and shared_secret in each other's place
NistPCurveHkdf_Swapped(self, a, fr, trace) ==
  LET shared_secret == fr.status_or_string IN
  Stepped("done", [fr EXCEPT !.shared_secret = shared_secret],
          ComputeEciesHkdfSymmetricKey(a.hash, shared_secret, a.kem_bytes,
                                       a.hkdf_salt, a.hkdf_info,
                                       a.key_size_in_bytes),
          Append(trace, Event("Hkdf", <<a.hash, shared_secret, a.kem_bytes,
                                        a.hkdf_salt, a.hkdf_info,
                                        a.key_size_in_bytes>>)),
          self)

\* lines 94-96: copy the secret and derive the key
NistPCurveHkdf(self, a, fr, trace) ==
  LET shared_secret == fr.status_or_string IN
  Stepped("done", [fr EXCEPT !.shared_secret = shared_secret],
          ComputeEciesHkdfSymmetricKey(a.hash, a.kem_bytes, shared_secret,
                                       a.hkdf_salt, a.hkdf_info,
                                       a.key_size_in_bytes),
          Append(trace, Event("Hkdf", <<a.hash, a.kem_bytes, shared_secret,
                                        a.hkdf_salt, a.hkdf_info,
                                        a.key_size_in_bytes>>)),
          self)

\* the two argument checks in the opposite order
X25519Checks_LengthFirst(self, a, fr, trace) ==
  LET seen1 == Append(trace, Event("check kem_bytes.size", <<>>))
      seen2 == Append(seen1, Event("check point_format", <<>>))
  IN  IF Len(a.kem_bytes) # X25519_PUBLIC_VALUE_LEN
      THEN Stepped("done", fr, Error("INVALID_ARGUMENT"), seen1, self)
      ELSE IF a.point_format # "COMPRESSED"
      THEN Stepped("done", fr, Error("INVALID_ARGUMENT"), seen2, self)
      ELSE Stepped("x25519", fr, NoResult, seen2, self)

\* X25519 GenerateKey, lines 128-137: the two argument checks
X25519Checks(self, a, fr, trace) ==
  LET seen1 == Append(trace, Event("check point_format", <<>>))
      seen2 == Append(seen1, Event("check kem_bytes.size", <<>>))
  IN  IF a.point_format # "COMPRESSED"
      THEN Stepped("done", fr, Error("INVALID_ARGUMENT"), seen1, self)
      ELSE IF Len(a.kem_bytes) # X25519_PUBLIC_VALUE_LEN
      THEN Stepped("done", fr, Error("INVALID_ARGUMENT"), seen2, self)
      ELSE Stepped("x25519", fr, NoResult, seen2, self)

\* the scalar multiplication clamping the stored scalar in place first
X25519ScalarMult_ClampInPlace(self, a, fr, trace) ==
  LET clamped == [self.private_key_ EXCEPT ![1] = (@ \div 8) * 8]
      shared_key == X25519(clamped, a.kem_bytes)
  IN  Stepped("hkdf",
              [fr EXCEPT !.shared_key = shared_key, !.shared_secret = shared_key],
              NoResult, Append(trace, Event("X25519", <<>>)),
              [self EXCEPT !.private_key_ = clamped])

\* lines 139-142: the scalar multiplication, its return value ignored, and
\* the string copy of its output
X25519ScalarMult(self, a, fr, trace) ==
  LET shared_key == X25519(self.private_key_, a.kem_bytes) IN
  Stepped("hkdf",
          [fr EXCEPT !.shared_key = shared_key, !.shared_secret = shared_key],
          NoResult, Append(trace, Event("X25519", <<>>)), self)

\* lines 144-145: derive the key
X25519Hkdf(self, a, fr, trace) ==
  Stepped("done", fr,
          ComputeEciesHkdfSymmetricKey(a.hash, a.kem_bytes, fr.shared_secret,
                                       a.hkdf_salt, a.hkdf_info,
                                       a.key_size_in_bytes),
          Append(trace, Event("Hkdf", <<a.hash, a.kem_bytes, fr.shared_secret,
                                        a.hkdf_salt, a.hkdf_info,
                                        a.key_size_in_bytes>>)),
          self)

\* one static set of locals shared by every call
Frame_Static(t) == 1

\* the stack frame a caller's GenerateKey runs in: its own
Frame(t) == t

\* the locals at scope exit: bssl::UniquePtr<BIGNUM> runs BN_free, and
\* BoringSSL's OPENSSL_free clears what it frees; the std::string destructors
\* and the end of the array's lifetime overwrite nothing
ScopeExit(fr) == [fr EXCEPT !.priv_key = <<>>]

\* apply the outcome of a step made by caller t with arguments a
Apply(t, a, s) ==
  /\ pc' = [pc EXCEPT ![t] = s.pc]
  /\ args' = [args EXCEPT ![t] = a]
  /\ result' = [result EXCEPT ![t] = s.result]
  /\ log' = [log EXCEPT ![t] = s.log]
  /\ kem' = s.self
  /\ frame' = [frame EXCEPT ![Frame(t)] =
                 IF s.pc = "done" THEN ScopeExit(s.frame) ELSE s.frame]
  /\ UNCHANGED <<newArgs, newStatus, newLog>>

\* a caller enters GenerateKey and runs its first statement
Begin(t, a, variant) ==
  /\ kem.variant = variant
  /\ pc[t] = "idle"
  /\ calls < MaxCalls
  /\ calls' = calls + 1

NistPCurve_Decode(t) ==
  \E a \in GenerateKeyArgs :
    /\ Begin(t, a, "NistPCurve")
    /\ Apply(t, a, NistPCurveDecode(kem, a, NoFrame, <<>>))

NistPCurve_Bignum(t) ==
  /\ kem.variant = "NistPCurve" /\ pc[t] = "bn"
  /\ Apply(t, args[t], NistPCurveBignum(kem, args[t], frame[Frame(t)], log[t]))
  /\ UNCHANGED calls

NistPCurve_Ecdh(t) ==
  /\ kem.variant = "NistPCurve" /\ pc[t] = "ecdh"
  /\ Apply(t, args[t], NistPCurveEcdh(kem, args[t], frame[Frame(t)], log[t]))
  /\ UNCHANGED calls

NistPCurve_Hkdf(t) ==
  /\ kem.variant = "NistPCurve" /\ pc[t] = "hkdf"
  /\ Apply(t, args[t], NistPCurveHkdf(kem, args[t], frame[Frame(t)], log[t]))
  /\ UNCHANGED calls

X25519_Checks(t) ==
  \E a \in GenerateKeyArgs :
    /\ Begin(t, a, "X25519")
    /\ Apply(t, a, X25519Checks(kem, a, NoFrame, <<>>))

X25519_ScalarMult(t) ==
  /\ kem.variant = "X25519" /\ pc[t] = "x25519"
  /\ Apply(t, args[t], X25519ScalarMult(kem, args[t], frame[Frame(t)], log[t]))
  /\ UNCHANGED calls

X25519_Hkdf(t) ==
  /\ kem.variant = "X25519" /\ pc[t] = "hkdf"
  /\ Apply(t, args[t], X25519Hkdf(kem, args[t], frame[Frame(t)], log[t]))
  /\ UNCHANGED calls

\* the caller has taken the returned value and may call again
Return(t) ==
  /\ pc[t] = "done"
  /\ pc' = [pc EXCEPT ![t] = "idle"]
  /\ args' = [args EXCEPT ![t] = NoArgs]
  /\ result' = [result EXCEPT ![t] = NoResult]
  /\ log' = [log EXCEPT ![t] = <<>>]
  /\ UNCHANGED <<kem, newArgs, newStatus, newLog, calls, frame>>

(***************************************************************************)
(* Specification                                                           *)
(***************************************************************************)

Init ==
  /\ kem = NoKem
  /\ newArgs = [entry |-> "none", curve |-> "none", priv_key |-> <<>>]
  /\ newStatus = "none"
  /\ newLog = <<>>
  /\ calls = 0
  /\ pc = [t \in Callers |-> "idle"]
  /\ args = [t \in Callers |-> NoArgs]
  /\ frame = [t \in Callers |-> NoFrame]
  /\ result = [t \in Callers |-> NoResult]
  /\ log = [t \in Callers |-> <<>>]

Next ==
  \/ New
  \/ NistPCurve_New
  \/ X25519_New
  \/ \E t \in Callers : NistPCurve_Decode(t)
  \/ \E t \in Callers : NistPCurve_Bignum(t)
  \/ \E t \in Callers : NistPCurve_Ecdh(t)
  \/ \E t \in Callers : NistPCurve_Hkdf(t)
  \/ \E t \in Callers : X25519_Checks(t)
  \/ \E t \in Callers : X25519_ScalarMult(t)
  \/ \E t \in Callers : X25519_Hkdf(t)
  \/ \E t \in Callers : Return(t)

Spec == Init /\ [][Next]_vars

(***************************************************************************)
(* GenerateKey run alone, start to return                                  *)
(***************************************************************************)

\* the statement at position at of the variant's GenerateKey
StepOf(self, at, a, fr, trace) ==
  CASE self.variant = "NistPCurve" /\ at = "start" -> NistPCurveDecode(self, a, fr, trace)
    [] self.variant = "NistPCurve" /\ at = "bn" -> NistPCurveBignum(self, a, fr, trace)
    [] self.variant = "NistPCurve" /\ at = "ecdh" -> NistPCurveEcdh(self, a, fr, trace)
    [] self.variant = "NistPCurve" /\ at = "hkdf" -> NistPCurveHkdf(self, a, fr, trace)
    [] self.variant = "X25519" /\ at = "start" -> X25519Checks(self, a, fr, trace)
    [] self.variant = "X25519" /\ at = "x25519" -> X25519ScalarMult(self, a, fr, trace)
    [] self.variant = "X25519" /\ at = "hkdf" -> X25519Hkdf(self, a, fr, trace)

RECURSIVE RunFrom(_, _, _)
RunFrom(self, a, s) ==
  IF s.pc = "done" THEN s
  ELSE RunFrom(s.self, a, StepOf(s.self, s.pc, a, s.frame, s.log))

\* the value one uninterrupted GenerateKey call returns
GenerateKey(self, a) ==
  RunFrom(self, a, Stepped("start", NoFrame, NoResult, <<>>, self)).result

(***************************************************************************)
(* Vocabulary of the properties                                            *)
(***************************************************************************)

Done(t) == pc[t] = "done"
InCall(t) == pc[t] \notin {"idle", "done"}

\* the collaborator calls and checks caller t has made, by name
Ops(t) == [i \in 1..Len(log[t]) |-> log[t][i].op]
Has(t, op) == \E i \in 1..Len(log[t]) : log[t][i].op = op
HkdfCalls(t) == SelectSeq(log[t], LAMBDA e : e.op = "Hkdf")

NistPCurveOrder ==
  <<"EcPointDecode", "BN_bin2bn", "ComputeEcdhSharedSecret", "Hkdf">>

IsPrefix(s, full) == Len(s) <= Len(full) /\ s = SubSeq(full, 1, Len(s))

\* the point the current instance decodes a's kem_bytes to
Decoded(a) == EcPointDecode(kem.curve_, a.point_format, a.kem_bytes)

\* the shared secret the current instance and a's kem_bytes agree on, or the
\* error that stops the call before the derivation
Secret(a) ==
  IF kem.variant = "NistPCurve"
  THEN IF Decoded(a).code # "OK" THEN Error("INVALID_ARGUMENT")
       ELSE ComputeEcdhSharedSecret(kem.curve_, BN_bin2bn(kem.priv_key_value_),
                                    Decoded(a).value)
  ELSE IF a.point_format # "COMPRESSED" \/ Len(a.kem_bytes) # 32
       THEN Error("INVALID_ARGUMENT")
       ELSE Ok(X25519(kem.private_key_, a.kem_bytes))

\* kem_bytes that are no valid public value for the instance: not decodable
\* to a point of the curve, of the wrong length, or all zero
FailsPointValidation(a) ==
  \/ AllZero(a.kem_bytes)
  \/ kem.variant = "NistPCurve" /\ Decoded(a).code # "OK"
  \/ kem.variant = "X25519" /\ Len(a.kem_bytes) # 32

ViaDispatcher == newArgs.entry = "RecipientKem::New"

(***************************************************************************)
(* Properties                                                              *)
(***************************************************************************)

\* C1: whatever the curve kind, a GenerateKey call whose kemBytes fail point
\* validation (all zero, wrong length, not on the curve) returns
\* INVALID_ARGUMENT, returns no key and never invokes the key derivation.
C1_InvalidKemBytesRejected ==
  \A t \in Callers :
    (Done(t) /\ FailsPointValidation(args[t])) =>
      /\ result[t] = Error("INVALID_ARGUMENT")
      /\ ~Has(t, "Hkdf")

\* C2: once a GenerateKey call has returned, by whichever exit, its secret
\* locals (the private key as a big integer, the shared secret in its raw
\* buffer and in its string copy) hold only zeros.
C2_SecretsZeroedOnReturn ==
  \A t \in Callers :
    ~InCall(t) =>
      /\ AllZero(frame[t].priv_key)
      /\ AllZero(frame[t].status_or_string)
      /\ AllZero(frame[t].shared_key)
      /\ AllZero(frame[t].shared_secret)

\* C3: the dispatcher enters the prime-curve construction exactly for P-256,
\* P-384 and P-521, the Montgomery construction exactly for X25519, and for
\* any other curve kind returns UNIMPLEMENTED having entered neither,
\* whatever the private-key bytes.
C3_DispatcherRouting ==
  ViaDispatcher =>
    /\ (newArgs.curve \in {"NIST_P256", "NIST_P384", "NIST_P521"})
         <=> (newLog # <<>> /\ newLog[1] = "NistPCurve::New")
    /\ (newArgs.curve = "CURVE25519")
         <=> (newLog # <<>> /\ newLog[1] = "X25519::New")
    /\ (newArgs.curve \notin {"NIST_P256", "NIST_P384", "NIST_P521", "CURVE25519"})
         => (newStatus = "UNIMPLEMENTED" /\ newLog = <<>> /\ kem = NoKem)

C3_Witness ==
  /\ ViaDispatcher
  /\ newArgs.curve = "UNKNOWN_CURVE"
  /\ Len(newArgs.priv_key) = 32
  /\ newStatus = "UNIMPLEMENTED"

\* C4: an X25519 GenerateKey call with a point format other than COMPRESSED
\* returns INVALID_ARGUMENT having done nothing but the format check: no
\* length check, no scalar multiplication (so no read of the private key)
\* and no key derivation, whatever kemBytes is.
C4_FormatCheckedFirst ==
  \A t \in Callers :
    (kem.variant = "X25519" /\ pc[t] # "idle"
       /\ args[t].point_format # "COMPRESSED") =>
      /\ Done(t)
      /\ result[t] = Error("INVALID_ARGUMENT")
      /\ Ops(t) = <<"check point_format">>
      /\ frame[t].shared_key = <<>>

C4_Witness ==
  \E t \in Callers :
    /\ kem.variant = "X25519"
    /\ Done(t)
    /\ args[t].point_format = "UNCOMPRESSED"
    /\ Len(args[t].kem_bytes) # 32
    /\ result[t].code = "INVALID_ARGUMENT"

\* C5: constructing for CURVE25519, through the dispatcher or X25519::New,
\* with a private key that is not 32 bytes long fails with INVALID_ARGUMENT,
\* leaves no instance, never runs the constructor's copy and so allows no
\* scalar multiplication; with 32 bytes it succeeds and the stored scalar is
\* the supplied bytes.
C5_X25519KeyLength ==
  (newArgs.curve = "CURVE25519"
     /\ newArgs.entry \in {"RecipientKem::New", "X25519::New"}) =>
    IF Len(newArgs.priv_key) # 32
    THEN /\ newStatus = "INVALID_ARGUMENT"
         /\ kem = NoKem
         /\ \A i \in 1..Len(newLog) : newLog[i] # "X25519::ctor"
         /\ \A t \in Callers : ~Has(t, "X25519")
    ELSE /\ newStatus = "OK"
         /\ kem.variant = "X25519"
         /\ kem.private_key_ = newArgs.priv_key

C5_Witness ==
  /\ ViaDispatcher
  /\ newArgs.curve = "CURVE25519"
  /\ Len(newArgs.priv_key) = 31
  /\ newStatus = "INVALID_ARGUMENT"

\* C6: no step changes a constructed instance (its curve kind and private key
\* stay what construction made them), and two finished GenerateKey calls with
\* the same arguments hold the same result, whatever ran in between.
C6_ImmutableAndDeterministic ==
  /\ [][kem # NoKem => kem' = kem]_vars
  /\ [](\A t, u \in Callers :
          (Done(t) /\ Done(u) /\ args[t] = args[u]) => result[t] = result[u])

C6_Witness ==
  /\ calls = 3
  /\ Done(1) /\ Done(2)
  /\ args[1] = args[2]
  /\ result[1].code = "OK"
  /\ result[2].code = "OK"

\* C7: NistPCurve::New fails with INVALID_ARGUMENT on an empty private key
\* before any group lookup, fails with the lookup's UNIMPLEMENTED when the
\* lookup fails, and otherwise succeeds storing the curve, the private-key
\* bytes as given (zero or not below the group order included) and the group.
C7_NistPCurveConstruction ==
  (newLog # <<>> /\ newLog[1] = "NistPCurve::New") =>
    IF newArgs.priv_key = <<>>
    THEN /\ newStatus = "INVALID_ARGUMENT"
         /\ newLog = <<"NistPCurve::New">>
         /\ kem = NoKem
    ELSE IF GetEcGroup(newArgs.curve).code # "OK"
    THEN /\ newStatus = "UNIMPLEMENTED"
         /\ kem = NoKem
    ELSE /\ newStatus = "OK"
         /\ kem.variant = "NistPCurve"
         /\ kem.curve_ = newArgs.curve
         /\ kem.priv_key_value_ = newArgs.priv_key
         /\ kem.ec_group_ = GetEcGroup(newArgs.curve).value

C7_Witness ==
  /\ newArgs.entry = "NistPCurve::New"
  /\ newArgs.curve = "CURVE25519"
  /\ newArgs.priv_key = <<0, 13>>
  /\ newStatus = "UNIMPLEMENTED"

\* C8: a finished GenerateKey call holds a key or an error, never both and
\* never a key of another length; when validation and the shared secret
\* succeed it made exactly one derivation call, on (hash, kem_bytes as given,
\* shared secret, salt, info, size), and returns that call's value or error
\* as it is; otherwise it made none.
C8_DerivationVerbatim ==
  \A t \in Callers :
    Done(t) =>
      /\ (result[t].code = "OK") <=> (result[t].value # <<>>)
      /\ result[t].code = "OK" => result[t].value[5] = args[t].key_size_in_bytes
      /\ IF Secret(args[t]).code = "OK"
         THEN /\ HkdfCalls(t) =
                   << Event("Hkdf", <<args[t].hash, args[t].kem_bytes,
                                      Secret(args[t]).value, args[t].hkdf_salt,
                                      args[t].hkdf_info,
                                      args[t].key_size_in_bytes>>) >>
              /\ result[t] =
                   ComputeEciesHkdfSymmetricKey(
                     args[t].hash, args[t].kem_bytes, Secret(args[t]).value,
                     args[t].hkdf_salt, args[t].hkdf_info,
                     args[t].key_size_in_bytes)
         ELSE /\ HkdfCalls(t) = <<>>
              /\ result[t].code # "OK"

C8_Witness ==
  \E t \in Callers :
    /\ kem.variant = "NistPCurve"
    /\ Done(t)
    /\ result[t].code = "OK"
    /\ Len(HkdfCalls(t)) = 1

\* C9: under any interleaving of the callers' GenerateKey steps, every
\* finished call holds the result the same call returns when run alone, and
\* no step touches the instance or the locals of a call it does not belong to.
C9_ConcurrentCallsIndependent ==
  /\ [](\A t \in Callers : Done(t) => result[t] = GenerateKey(kem, args[t]))
  /\ [][/\ kem # NoKem => kem' = kem
        /\ \A u \in Callers :
             (InCall(u) /\ pc'[u] = pc[u]) => frame'[u] = frame[u]]_vars

C9_Witness ==
  /\ Done(1)
  /\ result[1].code = "OK"
  /\ pc[2] = "hkdf"
  /\ args[1].kem_bytes # args[2].kem_bytes

\* C10: NistPCurve GenerateKey calls its collaborators in the order decode,
\* BN_bin2bn, ECDH, derivation, each only after the one before succeeded; a
\* failed decode, whatever its own error, returns INVALID_ARGUMENT with the
\* private key untouched; a failed ECDH returns the arithmetic's error as it
\* is and no derivation is made.
C10_NistPCurveStepOrder ==
  \A t \in Callers :
    (kem.variant = "NistPCurve" /\ pc[t] # "idle") =>
      /\ IsPrefix(Ops(t), NistPCurveOrder)
      /\ Decoded(args[t]).code # "OK" =>
           /\ Done(t)
           /\ result[t] = Error("INVALID_ARGUMENT")
           /\ Ops(t) = <<"EcPointDecode">>
           /\ frame[t].priv_key = <<>>
      /\ (Decoded(args[t]).code = "OK" /\ Secret(args[t]).code # "OK" /\ Done(t)) =>
           /\ result[t] = Error(Secret(args[t]).code)
           /\ Ops(t) = SubSeq(NistPCurveOrder, 1, 3)
      /\ Has(t, "Hkdf") => Secret(args[t]).code = "OK"

C10_Witness ==
  \E t \in Callers :
    /\ kem.variant = "NistPCurve"
    /\ Done(t)
    /\ Decoded(args[t]).code = "OK"
    /\ result[t].code = "INTERNAL"
    /\ Ops(t) = SubSeq(NistPCurveOrder, 1, 3)

=============================================================================
